---- MODULE Spec2Model ----
(***************************************************************************)
(* Voting backend (src/main.py): items in the "votingitem" collection,     *)
(* votes in the "vote" collection, and the request handlers create_item    *)
(* and vote_item.  A vote request is split at its storage calls            *)
(* (find_one / insert / update_one / find_one), which is where concurrent  *)
(* requests interleave.                                                     *)
(***************************************************************************)
EXTENDS Integers, Sequences, FiniteSets, TLC

\* ---------------------------------------------------------------- bounds
NumReq   == 2      \* vote requests of a run (request slots 1..NumReq)
MaxItems == 1      \* items created in a run
MaxClock == 1      \* largest value the wall clock reaches

Requests == 1..NumReq

\* ---------------------------------------------------------------- values
\* Python's None for an Optional[str] field.
NONE == "<None>"

\* (variant) only None counts as missing.
Falsy_noneonly(x) == x = NONE

\* `not x` for an Optional[str]: None and the empty string are falsy.
Falsy(x) == x = NONE \/ x = ""

Directions == {"up", "down"}

AllowedCategory == {"websites", "tools", "apps", "ideas", "misc"}

\* Item ids as the client spells them.  An ObjectId string is hex, read
\* case-insensitively; the abstract ObjectId is the position of the item in
\* the collection ("a" is the first item created, "b" the second, ...).
HexIds == <<"a", "b", "c">>

\* bson lower-cases the hex digits when it parses them.
Lower(s) == CASE s = "A" -> "a" [] s = "B" -> "b" [] s = "C" -> "c" [] OTHER -> s

InvalidId == 0

\* oid(id_str): the ObjectId, or InvalidId where the code raises 400.
oid(id_str) ==
    IF \E i \in 1..Len(HexIds) : HexIds[i] = Lower(id_str)
    THEN CHOOSE i \in 1..Len(HexIds) : HexIds[i] = Lower(id_str)
    ELSE InvalidId

\* str(ObjectId): the canonical (lower-case) spelling.
StrOfId(i) == HexIds[i]

\* ---------------------------------------------------------------- state
VARIABLES
    items,   \* votingitem collection: sequence of item documents, _id = index
    votes,   \* vote collection: set of vote documents
    now,     \* wall clock (datetime.now)
    pc,      \* pc[r]: where request r stands in vote_item
    req,     \* req[r]: path parameter and body of request r
    resp,    \* resp[r]: status and returned document of request r
    listed   \* the last list_items call: its arguments and the array returned

vars == <<items, votes, now, pc, req, resp, listed>>

NoReq == [item_id |-> "", direction |-> "up", session_id |-> NONE, user_id |-> NONE]
NoResp == [status |-> 0, doc |-> <<>>]
NoList == [category |-> NONE, sort |-> "", result |-> <<>>]

\* A reading of datetime.now(timezone.utc): the clock does not go back, and
\* two readings may be equal.
ClockReadings == {t \in {now, now + 1} : t <= MaxClock}

Init ==
    /\ items = <<>>
    /\ votes = {}
    /\ now = 0
    /\ pc = [r \in Requests |-> "idle"]
    /\ req = [r \in Requests |-> NoReq]
    /\ resp = [r \in Requests |-> NoResp]
    /\ listed = NoList

\* ---------------------------------------------------------------- create_item
Payload(title, category, image, link) ==
    [title |-> title, category |-> category, description |-> NONE,
     image |-> image, link |-> link]

ItemPayloads == {Payload("Rust", "tools", NONE, NONE)}

\* The request body parses as ItemCreate: title is any str, category one of
\* the Literal's values, description / image / link any Optional[str].
\* Otherwise the framework answers 422 and create_item does not run.
ValidItemCreate(payload) == payload.category \in AllowedCategory

\* data = payload.model_dump() + counters and timestamps; insert_one.
NewItem(payload, t1, t2) ==
    [title |-> payload.title, category |-> payload.category,
     description |-> payload.description,
     image |-> payload.image, link |-> payload.link,
     upvotes |-> 0, downvotes |-> 0, score |-> 0,
     created_at |-> t1, updated_at |-> t2]

\* POST /api/items with a body drawn from payloads, at most max items.
CreateItemFrom(payloads, max) ==
    /\ Len(items) < max
    /\ \E payload \in payloads :
       IF ValidItemCreate(payload)
       THEN \E t1 \in ClockReadings :
            \E t2 \in {t \in {t1, t1 + 1} : t <= MaxClock} :
               /\ items' = Append(items, NewItem(payload, t1, t2))
               /\ now' = t2
       ELSE UNCHANGED <<items, now>>
    /\ UNCHANGED <<votes, pc, req, resp, listed>>

CreateItem == CreateItemFrom(ItemPayloads, MaxItems)

\* ---------------------------------------------------------------- vote_item
\* (variant) the filter without the session_id condition.
voter_filter_useronly(item_id, vote) ==
    [item_id |-> item_id,
     or |-> IF ~Falsy(vote.user_id) THEN { <<"user_id", vote.user_id>> } ELSE {}]

\* (variant) the filter without the cleanup of None conditions.
voter_filter_nocleanup(item_id, vote) ==
    [item_id |-> item_id,
     or |-> { <<"session_id", IF ~Falsy(vote.session_id) THEN vote.session_id ELSE NONE>>,
              <<"user_id", IF ~Falsy(vote.user_id) THEN vote.user_id ELSE NONE>> }]

\* voter_filter after the "Cleanup None in $or" line: the item_id and the
\* set of <<field, value>> conditions that survive.
voter_filter(item_id, vote) ==
    [item_id |-> item_id,
     or |-> {cond \in { <<"session_id", IF ~Falsy(vote.session_id) THEN vote.session_id ELSE NONE>>,
                        <<"user_id", IF ~Falsy(vote.user_id) THEN vote.user_id ELSE NONE>> } :
                cond[2] # NONE}]

\* A stored vote document satisfies the filter (Mongo equality match).
MatchesFilter(f, v) ==
    /\ v.item_id = f.item_id
    /\ \E cond \in f.or : v[cond[1]] = cond[2]

\* db["vote"].find_one(voter_filter) finds a document.
existing(item_id, vote) ==
    \E v \in votes : MatchesFilter(voter_filter(item_id, vote), v)

\* create_document("vote", data): the stored document gets a generated
\* unique identifier (the inserting request's number stands for it).
create_document(coll, id, data) ==
    coll \cup {[id |-> id, item_id |-> data.item_id, direction |-> data.direction,
                session_id |-> data.session_id, user_id |-> data.user_id]}

\* (variant) a down vote that leaves the score where it was.
inc_noscore(direction) ==
    IF direction = "up"
    THEN [upvotes |-> 1, downvotes |-> 0, score |-> 1]
    ELSE [upvotes |-> 0, downvotes |-> 1, score |-> 0]

\* (variant) the two directions exchanged.
inc_swapped(direction) ==
    IF direction = "up"
    THEN [upvotes |-> 0, downvotes |-> 1, score |-> -1]
    ELSE [upvotes |-> 1, downvotes |-> 0, score |-> 1]

\* $inc of the counter update.
inc(direction) ==
    IF direction = "up"
    THEN [upvotes |-> 1, downvotes |-> 0, score |-> 1]
    ELSE [upvotes |-> 0, downvotes |-> 1, score |-> -1]

\* (variant) the counters written with $set instead of $inc.
update_one_set(coll, i, d, t) ==
    [coll EXCEPT ![i] = [@ EXCEPT !.upvotes = d.upvotes,
                                  !.downvotes = d.downvotes,
                                  !.score = d.score,
                                  !.updated_at = t]]

\* update_one({"_id": i}, {"$inc": inc, "$set": {"updated_at": t}}).
update_one(coll, i, d, t) ==
    [coll EXCEPT ![i] = [@ EXCEPT !.upvotes = @ + d.upvotes,
                                  !.downvotes = @ + d.downvotes,
                                  !.score = @ + d.score,
                                  !.updated_at = t]]

\* The document as returned: _id popped and projected to "id".
ReturnedDoc(i) ==
    [id |-> StrOfId(i), title |-> items[i].title, category |-> items[i].category,
     description |-> items[i].description,
     image |-> items[i].image, link |-> items[i].link,
     upvotes |-> items[i].upvotes, downvotes |-> items[i].downvotes,
     score |-> items[i].score,
     created_at |-> items[i].created_at, updated_at |-> items[i].updated_at]

Finish(r, status, doc) ==
    /\ pc' = [pc EXCEPT ![r] = "done"]
    /\ resp' = [resp EXCEPT ![r] = [status |-> status, doc |-> doc]]

\* Lines 119-136: the request arrives, the identity check runs, and the
\* duplicate check reads the vote collection.
VoteCheck(r, item_id, vote) ==
    /\ pc[r] = "idle"
    /\ \A q \in Requests : q < r => pc[q] # "idle"
    /\ req' = [req EXCEPT ![r] = [item_id |-> item_id, direction |-> vote.direction,
                                  session_id |-> vote.session_id, user_id |-> vote.user_id]]
    /\ IF Falsy(vote.session_id) /\ Falsy(vote.user_id)
       THEN Finish(r, 400, <<>>)
       ELSE IF existing(item_id, vote)
            THEN Finish(r, 409, <<>>)
            ELSE /\ pc' = [pc EXCEPT ![r] = "insert"]
                 /\ UNCHANGED resp
    /\ UNCHANGED <<items, votes, now, listed>>

\* (variant) the request goes on without its vote being stored.
VoteInsert_drop(r) ==
    /\ pc[r] = "insert"
    /\ pc' = [pc EXCEPT ![r] = "update"]
    /\ UNCHANGED <<items, votes, now, req, resp, listed>>

\* Lines 139-144: record the vote.
VoteInsert(r) ==
    /\ pc[r] = "insert"
    /\ votes' = create_document(votes, r, req[r])
    /\ pc' = [pc EXCEPT ![r] = "update"]
    /\ UNCHANGED <<items, now, req, resp, listed>>

\* (variant) the vote is taken back when the item is not found.
VoteUpdate_rollback(r) ==
    /\ pc[r] = "update"
    /\ LET i == oid(req[r].item_id) IN
       IF i = InvalidId
       THEN /\ Finish(r, 400, <<>>)
            /\ UNCHANGED <<items, now, votes>>
       ELSE \E t \in ClockReadings :
            /\ now' = t
            /\ IF i \in DOMAIN items
               THEN /\ items' = update_one(items, i, inc(req[r].direction), t)
                    /\ pc' = [pc EXCEPT ![r] = "read"]
                    /\ UNCHANGED <<resp, votes>>
               ELSE /\ Finish(r, 404, <<>>)
                    /\ votes' = {v \in votes : v.id # r}
                    /\ UNCHANGED items
    /\ UNCHANGED <<req, listed>>

\* Lines 147-150: update the counters of the item.  oid(item_id) is
\* evaluated first and raises 400 on a malformed id; the clock is read for
\* updated_at as the update is issued.
VoteUpdate(r) ==
    /\ pc[r] = "update"
    /\ LET i == oid(req[r].item_id) IN
       IF i = InvalidId
       THEN /\ Finish(r, 400, <<>>)
            /\ UNCHANGED <<items, now>>
       ELSE \E t \in ClockReadings :
            /\ now' = t
            /\ IF i \in DOMAIN items
               THEN /\ items' = update_one(items, i, inc(req[r].direction), t)
                    /\ pc' = [pc EXCEPT ![r] = "read"]
                    /\ UNCHANGED resp
               ELSE /\ Finish(r, 404, <<>>)
                    /\ UNCHANGED items
    /\ UNCHANGED <<votes, req, listed>>

\* Lines 152-154: read the item back and return it.
VoteRead(r) ==
    /\ pc[r] = "read"
    /\ Finish(r, 200, <<ReturnedDoc(oid(req[r].item_id))>>)
    /\ UNCHANGED <<items, votes, now, req, listed>>

\* The request is abandoned (client disconnect, timeout, worker killed)
\* while it waits on a storage call.
CancelledAt(p) ==
    CASE p = "insert" -> "cancelled_insert"
      [] p = "update" -> "cancelled_update"
      [] p = "read"   -> "cancelled_read"

Cancel(r) ==
    /\ pc[r] \in {"insert", "update", "read"}
    /\ pc' = [pc EXCEPT ![r] = CancelledAt(pc[r])]
    /\ UNCHANGED <<items, votes, now, req, resp, listed>>

\* ---------------------------------------------------------------- list_items
\* (variant) 'most' ordered by score.
sort_spec_mostbyscore(sort) ==
    IF sort = "newest" THEN "created_at" ELSE "score"

\* The field of sort_spec (the direction is always -1, descending).
sort_spec(sort) ==
    IF sort = "newest" THEN "created_at"
    ELSE IF sort = "most" THEN "upvotes"
    ELSE "score"

\* find(q): the ids of the items that satisfy q, where q has a category
\* condition only when a category is given.
find(category) ==
    {i \in DOMAIN items : category = NONE \/ items[i].category = category}

\* cursor.sort([(field, -1)]): the orders the cursor may deliver the ids in.
\* Documents with equal values of the field come in any order, which may
\* differ from one execution to the next.
sort(S, field) ==
    {ord \in [1..Cardinality(S) -> S] :
        /\ \A j, k \in 1..Cardinality(S) : j # k => ord[j] # ord[k]
        /\ \A j, k \in 1..Cardinality(S) :
              j < k => items[ord[j]][field] >= items[ord[k]][field]}

\* GET /api/items?category=&sort=
list_items(category, sort_arg) ==
    /\ \E ord \in sort(find(category), sort_spec(sort_arg)) :
          listed' = [category |-> category, sort |-> sort_arg,
                     result |-> [j \in 1..Len(ord) |-> ReturnedDoc(ord[j])]]
    /\ UNCHANGED <<items, votes, now, pc, req, resp>>

\* ---------------------------------------------------------------- inputs
Identity(s, u) == [session_id |-> s, user_id |-> u]

VoteBodies(idents) ==
    {[direction |-> d, session_id |-> v.session_id, user_id |-> v.user_id] :
        d \in Directions, v \in idents}

\* A request arrives with an item id and a body drawn from the given sets.
StartFrom(ids, idents) ==
    \E r \in Requests : \E item_id \in ids : \E vote \in VoteBodies(idents) :
        VoteCheck(r, item_id, vote)

VoteStep ==
    \E r \in Requests : VoteInsert(r) \/ VoteUpdate(r) \/ VoteRead(r)

VoteCancel == \E r \in Requests : Cancel(r)

\* Concurrent requests that all run to completion: an anonymous session and
\* a logged-in user, voting on the first item or on the second.
ConcItemIds == {"a", "b"}
ConcIdentities == {Identity("s1", NONE), Identity(NONE, "u1")}

VoteStart == StartFrom(ConcItemIds, ConcIdentities)

Next == CreateItem \/ VoteStart \/ VoteStep

Spec == Init /\ [][Next]_vars

\* Concurrent requests of one session that may be abandoned at a storage
\* call, voting on the first item under both spellings of its id.
CancelItemIds == {"a", "A"}
CancelIdentities == {Identity("s1", NONE)}

VoteStartCancel == StartFrom(CancelItemIds, CancelIdentities)

NextCancel == CreateItem \/ VoteStartCancel \/ VoteStep \/ VoteCancel

SpecCancel == Init /\ [][NextCancel]_vars

\* Requests served one after the other (no two vote requests in flight at
\* once), with a well-formed or malformed item id and every shape of
\* identity.
SeqItemIds == {"a", "zz"}
SeqIdentities ==
    {Identity(NONE, NONE), Identity("", ""),
     Identity("s1", NONE), Identity("s2", NONE),
     Identity(NONE, "u1"), Identity(NONE, "u2"), Identity("s1", "u1")}

NoneInFlight == \A q \in Requests : pc[q] \in {"idle", "done"}

VoteStartSeq == NoneInFlight /\ StartFrom(SeqItemIds, SeqIdentities)

NextSeq == CreateItem \/ VoteStartSeq \/ VoteStep

SpecSeq == Init /\ [][NextSeq]_vars

\* Requests of one session served one after the other, under both spellings
\* of the first item's id.
VoteStartSpell == NoneInFlight /\ StartFrom(CancelItemIds, CancelIdentities)

NextSpell == CreateItem \/ VoteStartSpell \/ VoteStep

SpecSpell == Init /\ [][NextSpell]_vars

\* Item creation with every shape of body, followed by votes of one session
\* served one after the other.
GoodUrl == "https://e.x/i.png"
BadUrl == "not a url"

CreatePayloads ==
    {Payload(t, c, i, l) : t \in {"", "Rust"}, c \in {"tools", "bogus"},
                           i \in {NONE, GoodUrl, BadUrl}, l \in {NONE, BadUrl}}

CreateItemAny == CreateItemFrom(CreatePayloads, MaxItems)

VoteStartCreate == NoneInFlight /\ StartFrom({"a"}, CancelIdentities)

NextCreate == CreateItemAny \/ VoteStartCreate \/ VoteStep

SpecCreate == Init /\ [][NextCreate]_vars

\* Listing: up to MaxItems + 1 items in two categories, an up vote of a
\* session and a down vote of a user on the first item, and then list
\* calls with or without a category and with each sort mode (an absent sort
\* is the default "trending"; "hot" stands for any other value).  list_items
\* only reads the items, so the calls are taken once the store is at rest,
\* a first call with any arguments and then repetitions of it: every store
\* the writes can produce is listed with every argument, repeatedly.
ListPayloads == {Payload("Rust", c, NONE, NONE) : c \in {"tools", "apps"}}
ListCategories == {NONE, "tools"}
ListSorts == {"trending", "newest", "most", "hot"}

CreateItemList == listed = NoList /\ CreateItemFrom(ListPayloads, MaxItems + 1)

ListVotes ==
    {[direction |-> "up", session_id |-> "s1", user_id |-> NONE],
     [direction |-> "down", session_id |-> NONE, user_id |-> "u1"]}

VoteStartList ==
    /\ listed = NoList /\ NoneInFlight
    /\ \E r \in Requests : \E vote \in ListVotes : VoteCheck(r, "a", vote)

ListItems ==
    /\ NoneInFlight
    /\ \E category \in ListCategories : \E sort_arg \in ListSorts :
          /\ listed = NoList \/ (listed.category = category /\ listed.sort = sort_arg)
          /\ list_items(category, sort_arg)

NextList == CreateItemList \/ VoteStartList \/ VoteStep \/ ListItems

SpecList == Init /\ [][NextList]_vars

\* ---------------------------------------------------------------- vocabulary
Done(r) == pc[r] = "done"
Status(r) == resp[r].status
Started(r) == pc[r] # "idle"

\* The identity of request r as a pair of its two components.
IdentityOf(r) == Identity(req[r].session_id, req[r].user_id)

\* A stored vote matches identity V (spec 4.1): equal on a non-empty
\* component of V.
NonEmpty(x) == x \notin {NONE, ""}

MatchesIdentity(v, V) ==
    \/ (NonEmpty(V.session_id) /\ v.session_id = V.session_id)
    \/ (NonEmpty(V.user_id) /\ v.user_id = V.user_id)

ValidIdentity(V) == NonEmpty(V.session_id) \/ NonEmpty(V.user_id)

\* Request r starts in this step (its identity and duplicate checks run).
Begins(r) == pc[r] = "idle" /\ pc'[r] # "idle"

\* Request r has had its counter update applied to an item.
Applied(r) == pc[r] \in {"read", "cancelled_read"} \/ (Done(r) /\ Status(r) = 200)

\* ---------------------------------------------------------------- C1
\* C1: requests with the same item_id and the same voter identity that all
\* completed with an acceptance or a duplicate rejection (the item exists,
\* the id is well-formed) have exactly one acceptance among them, the
\* others being rejected with 409, whatever the interleaving.
SameVoter(r, q) == req[r].item_id = req[q].item_id /\ IdentityOf(r) = IdentityOf(q)

C1_ExactlyOneAccepted ==
    \A r \in Requests :
        LET G == {q \in Requests : Started(q) /\ Started(r) /\ SameVoter(r, q)} IN
        (Cardinality(G) >= 2 /\ \A q \in G : Done(q) /\ Status(q) \in {200, 409})
            => Cardinality({q \in G : Status(q) = 200}) = 1

\* ---------------------------------------------------------------- C2
\* C2: for every item id I and every voter identity V of the concurrent
\* requests, at most one stored vote with item_id = I matches V.
C2_AtMostOneVotePerIdentity ==
    \A I \in ConcItemIds : \A V \in ConcIdentities :
        Cardinality({v \in votes : v.item_id = I /\ MatchesIdentity(v, V)}) <= 1

\* ---------------------------------------------------------------- C3
\* C3: in every reachable state, requests in flight or not, every stored
\* item has score = upvotes - downvotes.
C3_ScoreDerived ==
    \A i \in DOMAIN items : items[i].score = items[i].upvotes - items[i].downvotes

\* An item voted up once and down once while a request is still in flight.
C3_Witness ==
    \E i \in DOMAIN items :
        /\ items[i].upvotes = 1 /\ items[i].downvotes = 1
        /\ \E r \in Requests : pc[r] = "read"

\* ---------------------------------------------------------------- C4
\* C4 as stated: for every item I, upvotes + downvotes is the number of
\* stored votes whose item_id is I, and score is their signed sum.
VotesOfItem(i, d) == {v \in votes : v.item_id = StrOfId(i) /\ v.direction = d}

C4_CountersEqualVoteRecords ==
    \A i \in DOMAIN items :
        /\ items[i].upvotes + items[i].downvotes
              = Cardinality(VotesOfItem(i, "up")) + Cardinality(VotesOfItem(i, "down"))
        /\ items[i].score
              = Cardinality(VotesOfItem(i, "up")) - Cardinality(VotesOfItem(i, "down"))

\* C4 (amended): for every item I, upvotes + downvotes is the number of
\* stored votes whose item_id parses to I and whose request has applied its
\* counter update, and score is the signed sum of those votes.
AppliedVotes(i, d) ==
    {v \in votes : oid(v.item_id) = i /\ v.direction = d /\ Applied(v.id)}

C4_CountersEqualAppliedVotes ==
    \A i \in DOMAIN items :
        /\ items[i].upvotes + items[i].downvotes
              = Cardinality(AppliedVotes(i, "up")) + Cardinality(AppliedVotes(i, "down"))
        /\ items[i].score
              = Cardinality(AppliedVotes(i, "up")) - Cardinality(AppliedVotes(i, "down"))

\* An item with one vote counted and a second vote stored but not counted.
C4_Witness ==
    \E i \in DOMAIN items :
        /\ items[i].upvotes + items[i].downvotes = 1
        /\ Cardinality({v \in votes : oid(v.item_id) = i}) = 2

\* ---------------------------------------------------------------- C5
\* C5: when all the requests that target an existing item come from
\* pairwise non-matching identities and have all completed with 200, the
\* item's upvotes is the number of up votes among them and its downvotes
\* the number of down votes, for every interleaving.
Targeting(i) == {r \in Requests : Started(r) /\ oid(req[r].item_id) = i}

PairwiseNonMatching(G) ==
    \A r, q \in G : r # q => ~MatchesIdentity(req[r], IdentityOf(q))

C5_NoLostUpdate ==
    \A i \in DOMAIN items :
        LET G == Targeting(i) IN
        (/\ \A r \in G : Done(r) /\ Status(r) = 200
         /\ PairwiseNonMatching(G))
        => /\ items[i].upvotes = Cardinality({r \in G : req[r].direction = "up"})
           /\ items[i].downvotes = Cardinality({r \in G : req[r].direction = "down"})

\* Two accepted up votes by different identities that overlapped: the
\* request that arrived first read the item after the other one's update.
C5_Witness ==
    \E r, q \in Requests :
        /\ r < q /\ Done(r) /\ Done(q) /\ Status(r) = 200 /\ Status(q) = 200
        /\ oid(req[r].item_id) = oid(req[q].item_id)
        /\ ~MatchesIdentity(req[r], IdentityOf(q))
        /\ req[r].direction = "up" /\ req[q].direction = "up"
        /\ resp[r].doc[1].upvotes = 2

\* ---------------------------------------------------------------- C6
\* C6: with requests served one after the other, a request that repeats
\* the (item, identity, direction) of an accepted request is rejected with
\* 409; a request rejected with 409 inserts no vote and changes no item,
\* so that the pair changes the item's counters once.
AcceptedOn(i) == {x \in Requests : Done(x) /\ Status(x) = 200 /\ oid(req[x].item_id) = i}

C6_Step ==
    /\ \A r \in Requests :
          (Status(r) # 409 /\ resp'[r].status = 409) => (votes' = votes /\ items' = items)
    /\ \A r, q \in Requests :
          (r < q /\ Done(r) /\ Status(r) = 200 /\ Begins(q) /\ req'[q] = req[r])
              => /\ pc'[q] = "done" /\ resp'[q].status = 409
                 /\ LET i == oid(req[r].item_id) IN
                    items'[i].upvotes + items'[i].downvotes = Cardinality(AcceptedOn(i))

C6_RejectionIdempotent == [][C6_Step]_vars

\* The same vote submitted twice: accepted, then rejected, counted once.
C6_Witness ==
    \E r, q \in Requests :
        /\ r < q /\ req[r] = req[q]
        /\ Done(r) /\ Status(r) = 200 /\ Done(q) /\ Status(q) = 409
        /\ items[oid(req[r].item_id)].upvotes + items[oid(req[r].item_id)].downvotes = 1

\* ---------------------------------------------------------------- C7
\* C7: a request whose session_id and user_id are both absent or empty is
\* answered 400 at once, stores no vote and changes no item, whatever its
\* item_id and direction; no stored vote ever lacks both components.
C7_Step ==
    /\ \A r \in Requests :
          (Begins(r) /\ ~ValidIdentity(req'[r]))
              => /\ pc'[r] = "done" /\ resp'[r].status = 400
                 /\ votes' = votes /\ items' = items
    /\ \A v \in votes' : ValidIdentity(v)

C7_MissingIdentityRejected == [][C7_Step]_vars

\* Requests without identity were refused, one with an empty string for
\* both components and one for a malformed id, with an item and a vote
\* in the store.
C7_Witness ==
    /\ Len(items) >= 1 /\ votes # {}
    /\ \E r \in Requests :
          /\ Done(r) /\ Status(r) = 400
          /\ req[r].session_id = "" /\ req[r].user_id = ""

\* ---------------------------------------------------------------- C8
\* C8: a request that has inserted its vote and reaches the counter update
\* with a well-formed id of an item that does not exist is answered 404;
\* the step changes no item, and the vote it inserted stays stored.
HasVoteOf(vs, r) ==
    \E v \in vs : /\ v.id = r /\ v.item_id = req[r].item_id
                  /\ v.direction = req[r].direction
                  /\ v.session_id = req[r].session_id /\ v.user_id = req[r].user_id

C8_Step ==
    /\ \A r \in Requests :
          (/\ pc[r] = "update" /\ pc'[r] \notin {"update", "cancelled_update"}
           /\ oid(req[r].item_id) # InvalidId
           /\ oid(req[r].item_id) \notin DOMAIN items)
              => /\ pc'[r] = "done" /\ resp'[r].status = 404
                 /\ items' = items
                 /\ HasVoteOf(votes', r)
    /\ \A r \in Requests : (Done(r) /\ Status(r) = 404) => HasVoteOf(votes', r)

C8_ItemNotFoundKeepsVote == [][C8_Step]_vars

\* A request answered 404 for an item that still does not exist, its vote
\* stored, next to an item that exists.
C8_Witness ==
    \E r \in Requests :
        /\ Done(r) /\ Status(r) = 404 /\ HasVoteOf(votes, r)
        /\ Len(items) >= 1 /\ oid(req[r].item_id) \notin DOMAIN items

\* ---------------------------------------------------------------- C9
\* C9: a request with a valid identity is rejected by the duplicate guard
\* exactly when a stored vote with the same item_id equals it on a
\* non-empty component; otherwise it goes on to insert its vote.
C9_Step ==
    \A r \in Requests :
        (Begins(r) /\ ValidIdentity(req'[r]))
            => LET dup == \E v \in votes : /\ v.item_id = req'[r].item_id
                                           /\ MatchesIdentity(v, req'[r])
               IN /\ dup => (pc'[r] = "done" /\ resp'[r].status = 409)
                  /\ ~dup => (pc'[r] = "insert" /\ resp'[r].status = 0)

C9_DuplicateGuardExact == [][C9_Step]_vars

\* A vote stored with a user_id only did not block a later request on the
\* same item_id that carries a different user_id and no session_id.
C9_Witness ==
    \E v \in votes : \E q \in Requests :
        /\ v.id < q /\ v.item_id = req[q].item_id
        /\ v.session_id = NONE /\ req[q].session_id = NONE
        /\ NonEmpty(v.user_id) /\ NonEmpty(req[q].user_id) /\ v.user_id # req[q].user_id
        /\ Done(q) /\ Status(q) = 200

\* ---------------------------------------------------------------- C10
\* C10: with requests served one after the other, the counter update of a
\* vote adds 1 to upvotes (up) or to downvotes (down) of its item and
\* leaves the other counter and the other items alone, and an accepted
\* request returns its item with upvotes and downvotes equal to the numbers
\* of up and down votes accepted on that item so far, and score equal to
\* their difference.
AcceptedUpTo(r, i, d) ==
    {q \in 1..r : /\ Done(q) /\ Status(q) = 200
                  /\ oid(req[q].item_id) = i /\ req[q].direction = d}

C10_Returned ==
    \A r \in Requests :
        (Done(r) /\ Status(r) = 200)
            => LET i == oid(req[r].item_id)
                   d == resp[r].doc[1]
               IN /\ d.id = StrOfId(i)
                  /\ d.upvotes = Cardinality(AcceptedUpTo(r, i, "up"))
                  /\ d.downvotes = Cardinality(AcceptedUpTo(r, i, "down"))
                  /\ d.score = d.upvotes - d.downvotes

C10_Step ==
    /\ \A r \in Requests :
          (pc[r] = "update" /\ pc'[r] = "read")
              => LET i == oid(req[r].item_id)
                     up == IF req[r].direction = "up" THEN 1 ELSE 0
                 IN /\ items'[i].upvotes = items[i].upvotes + up
                    /\ items'[i].downvotes = items[i].downvotes + (1 - up)
                    /\ \A j \in DOMAIN items : j # i => items'[j] = items[j]
    /\ C10_Returned'

C10_AcceptedVoteCounts == [][C10_Step]_vars

\* Up by s1, then down by s2, on a fresh item: the second response shows
\* upvotes = 1, downvotes = 1, score = 0.
C10_Witness ==
    \E r, q \in Requests :
        /\ r < q /\ req[r].item_id = req[q].item_id
        /\ req[r].session_id = "s1" /\ req[r].direction = "up"
        /\ req[q].session_id = "s2" /\ req[q].direction = "down"
        /\ Done(r) /\ Status(r) = 200 /\ Done(q) /\ Status(q) = 200
        /\ resp[r].doc[1].upvotes = 1 /\ resp[r].doc[1].score = 1
        /\ resp[q].doc[1].upvotes = 1 /\ resp[q].doc[1].downvotes = 1
        /\ resp[q].doc[1].score = 0

\* ---------------------------------------------------------------- C11
\* C11: creation with an empty title, a category outside the enumerated
\* set, or a present image / link that is not a well-formed URL persists
\* nothing, so every persisted item has a non-empty title, an enumerated
\* category and well-formed (or absent) image and link.
WellFormedUrl(u) == u = GoodUrl

ValidItemFields(it) ==
    /\ it.title # ""
    /\ it.category \in {"websites", "tools", "apps", "ideas", "misc"}
    /\ it.image = NONE \/ WellFormedUrl(it.image)
    /\ it.link = NONE \/ WellFormedUrl(it.link)

C11_PersistedItemsValid ==
    \A i \in DOMAIN items : ValidItemFields(items[i])

\* ---------------------------------------------------------------- C12
\* C12: a list call returns exactly the stored items that pass the category
\* filter, each once and as stored, in descending order of created_at for
\* 'newest', of upvotes for 'most' and of score for any other sort.
SortKey(doc, sort_arg) ==
    CASE sort_arg = "newest" -> doc.created_at
      [] sort_arg = "most" -> doc.upvotes
      [] OTHER -> doc.score

Passing(category) ==
    {i \in DOMAIN items : category = NONE \/ items[i].category = category}

C12_Step ==
    (listed' # listed) =>
        LET res == listed'.result
            n == Len(res)
        IN /\ n = Cardinality(Passing(listed'.category))
           /\ {oid(res[j].id) : j \in 1..n} = Passing(listed'.category)
           /\ \A j \in 1..n :
                 LET it == items[oid(res[j].id)] IN
                 /\ res[j].upvotes = it.upvotes /\ res[j].downvotes = it.downvotes
                 /\ res[j].score = it.score /\ res[j].category = it.category
                 /\ res[j].created_at = it.created_at
                 /\ res[j].updated_at = it.updated_at
           /\ \A j, k \in 1..n :
                 j < k => SortKey(res[j], listed'.sort) >= SortKey(res[k], listed'.sort)

SameStore ==
    {listed.result[j] : j \in 1..Len(listed.result)}
        = {ReturnedDoc(i) : i \in Passing(listed.category)}

C13_Step ==
    (/\ listed.sort # ""
     /\ listed'.category = listed.category /\ listed'.sort = listed.sort
     /\ SameStore)
        => listed'.result = listed.result

C13_ListDeterministic == [][C13_Step]_vars

\* ---------------------------------------------------------------- C14
\* C14: once a request has been abandoned between its insert and its
\* counter update, it stays there, its vote stays stored, and every later
\* vote request by the same identity on the same item is rejected with 409.
SameItem(id1, id2) == oid(id1) # InvalidId /\ oid(id1) = oid(id2)

C14_Step ==
    \A r \in Requests :
        (pc[r] = "cancelled_update" /\ oid(req[r].item_id) \in DOMAIN items)
            => /\ pc'[r] = "cancelled_update"
               /\ HasVoteOf(votes', r)
               /\ \A q \in Requests :
                     (/\ Begins(q)
                      /\ SameItem(req'[q].item_id, req[r].item_id)
                      /\ req'[q].session_id = req[r].session_id
                      /\ req'[q].user_id = req[r].user_id)
                         => (pc'[q] = "done" /\ resp'[q].status = 409)

C14_PartialStateForever == [][C14_Step]_vars

\* ---------------------------------------------------------------- C15
\* C15: a request with a valid identity and a well-formed id that completes
\* while no item with that id exists is answered 404, a repeated request
\* by the same identity included.
C15_Step ==
    \A q \in Requests :
        (/\ pc[q] # "done" /\ pc'[q] = "done"
         /\ ValidIdentity(req'[q])
         /\ oid(req'[q].item_id) # InvalidId
         /\ oid(req'[q].item_id) \notin DOMAIN items')
            => resp'[q].status = 404

C15_MissingItemNotFound == [][C15_Step]_vars

\* ---------------------------------------------------------------- C16
\* C16: no step of a request whose item_id is malformed changes the votes
\* or the items, and such a request is answered 400.
C16_Step ==
    \A r \in Requests :
        (pc'[r] # pc[r] /\ oid(req'[r].item_id) = InvalidId)
            => /\ votes' = votes /\ items' = items
               /\ pc'[r] = "done" => resp'[r].status = 400

C16_MalformedIdRejected == [][C16_Step]_vars

\* ---------------------------------------------------------------- C17
\* C17: for every item and every voter identity, at most one request of
\* that identity has had its counter update applied to that item, however
\* the requests spell the item's id.
C17_OneIncrementPerIdentity ==
    \A i \in DOMAIN items : \A V \in CancelIdentities :
        Cardinality({r \in Requests : /\ Started(r) /\ Applied(r)
                                      /\ oid(req[r].item_id) = i
                                      /\ IdentityOf(r) = V}) <= 1

\* ---------------------------------------------------------------- C18
\* C18: in every reachable state, whatever the interleaving and wherever a
\* request was abandoned, an item's upvotes is at most the number of stored
\* up votes that target it, and its downvotes at most the number of stored
\* down votes that target it.
StoredVotes(i, d) == {v \in votes : oid(v.item_id) = i /\ v.direction = d}

C18_CountersNotAhead ==
    \A i \in DOMAIN items :
        /\ items[i].upvotes <= Cardinality(StoredVotes(i, "up"))
        /\ items[i].downvotes <= Cardinality(StoredVotes(i, "down"))

\* A request abandoned before its counter update next to one that was
\* counted: two up votes stored, one counted.
C18_Witness ==
    \E i \in DOMAIN items : \E r \in Requests :
        /\ pc[r] = "cancelled_update" /\ oid(req[r].item_id) = i
        /\ Cardinality(StoredVotes(i, "up")) = 2
        /\ items[i].upvotes = 1

\* ---------------------------------------------------------------- C19
\* C19: when no request is in flight, none was abandoned and every request
\* was answered 200 or 409 (its item existed under a well-formed id), each
\* item's upvotes is the number of stored up votes that target it and its
\* downvotes the number of stored down votes, duplicates admitted by the
\* race included.
Quiescent == \A r \in Requests : pc[r] \in {"idle", "done"}

C19_CountersAtQuiescence ==
    (/\ Quiescent
     /\ \A r \in Requests : Done(r) => Status(r) \in {200, 409})
        => \A i \in DOMAIN items :
              /\ items[i].upvotes = Cardinality(StoredVotes(i, "up"))
              /\ items[i].downvotes = Cardinality(StoredVotes(i, "down"))

\* Two identical up votes that raced were both accepted and both counted.
C19_Witness ==
    \E r, q \in Requests :
        /\ r < q /\ req[r] = req[q] /\ req[r].direction = "up"
        /\ Done(r) /\ Status(r) = 200 /\ Done(q) /\ Status(q) = 200
        /\ Quiescent
        /\ items[oid(req[r].item_id)].upvotes = 2

====
